---- MODULE Spec2Model ----
(***************************************************************************)
(* A model of package safeish (unsafe.go): SliceCast, SliceCastPtr, Index, *)
(* AsBytes and FindNull.  Each function has a call frame (a record with a  *)
(* program counter pc) and a specification of its own whose Init draws the *)
(* arguments from bounded sets and whose actions execute the function.     *)
(***************************************************************************)
EXTENDS Integers, Sequences, FiniteSets, TLC

VARIABLES sc,   \* frame of SliceCast
          sp,   \* frame of SliceCastPtr
          ix,   \* frame of Index
          ab,   \* frame of AsBytes, with the memory it views
          fn    \* frame of FindNull, with the memory it scans

vars == <<sc, sp, ix, ab, fn>>

(***************************************************************************)
(* Bounds of the model.                                                    *)
(***************************************************************************)
MaxCap == 6        \* slice capacities 0..MaxCap (plus the example's)
MaxSize == 4       \* element sizes 0..MaxSize (plus the example's)
MaxCasts == 2      \* SliceCast applied this many times in a row

(***************************************************************************)
(* The values of ExampleSliceCast (unsafe_test.go).                        *)
(***************************************************************************)
ExampleLen == 32
ExampleCap == 60
ExampleSize == 8

(***************************************************************************)
(* Pointers, slice headers and outcomes.                                   *)
(***************************************************************************)
NilPtr == 0

\* the frame of a function that is not being executed
Idle == [pc |-> "idle"]

\* type sliceHeader struct { data unsafe.Pointer; len int; cap int }
sliceHeader(d, l, c) == [data |-> d, len |-> l, cap |-> c]

\* the nil slice
NilSlice == sliceHeader(NilPtr, 0, 0)

\* a normal return, and a run-time panic
Ret(v) == [kind |-> "ret", val |-> v]
Panic(m) == [kind |-> "panic", msg |-> m]

Sizes == (0..MaxSize) \cup {ExampleSize}
Caps == (0..MaxCap) \cup {ExampleCap}
Lens == (0..MaxCap) \cup {ExampleLen}

\* the address of the backing array of the slices of the model
SliceBase == 64

\* the slices a caller can hold: 0 <= len <= cap, and a slice without a
\* backing array (data = nil) has capacity 0
Slices ==
    {sliceHeader(d, l, c) : d \in {NilPtr, SliceBase}, l \in Lens, c \in Caps}

ValidSlices == {s \in Slices : s.len <= s.cap /\ (s.data = NilPtr => s.cap = 0)}

(***************************************************************************)
(* SliceCast                                                               *)
(***************************************************************************)

\* mutant: the capacity is left unscaled when the elements get smaller
SliceCastShrink_CapUnscaled(x, sizeSrc, sizeDst) ==
    sliceHeader(x.data, x.len * (sizeSrc \div sizeDst), x.cap)

\* the branch sizeSrc >= sizeDst
SliceCastShrink(x, sizeSrc, sizeDst) ==
    sliceHeader(x.data,
                x.len * (sizeSrc \div sizeDst),
                x.cap * (sizeSrc \div sizeDst))

\* mutant: the ratio forgets the size of the source elements
SliceCastGrow_BySizeDst(x, sizeSrc, sizeDst) ==
    sliceHeader(x.data, x.len \div sizeDst, x.cap \div sizeDst)

\* the branch sizeSrc < sizeDst
SliceCastGrow(x, sizeSrc, sizeDst) ==
    sliceHeader(x.data,
                x.len \div (sizeDst \div sizeSrc),
                x.cap \div (sizeDst \div sizeSrc))

\* SliceCast[Dst, Src](x), with sizeSrc = unsafe.Sizeof(*new(SrcE)) and
\* sizeDst = unsafe.Sizeof(*new(DstE)).  The sizes of type parameters are
\* not constants, so a division by a zero size is a run-time panic.
SliceCast(x, sizeSrc, sizeDst) ==
    IF x.cap = 0 THEN Ret(NilSlice)
    ELSE IF sizeSrc >= sizeDst
         THEN IF sizeDst = 0
              THEN Panic("integer divide by zero")
              ELSE Ret(SliceCastShrink(x, sizeSrc, sizeDst))
         ELSE IF sizeSrc = 0
              THEN Panic("integer divide by zero")
              ELSE Ret(SliceCastGrow(x, sizeSrc, sizeDst))

InitSliceCast ==
    /\ \E x \in ValidSlices, a \in Sizes, b \in Sizes :
          sc = [pc |-> "call", x |-> x, sizeSrc |-> a, sizeDst |-> b,
                res |-> NilSlice, msg |-> "", prev |-> x, casts |-> 0]
    /\ sp = Idle /\ ix = Idle /\ ab = Idle /\ fn = Idle

\* one execution of SliceCast on the frame's arguments
SliceCastCall ==
    /\ sc.pc = "call"
    /\ LET r == SliceCast(sc.x, sc.sizeSrc, sc.sizeDst)
       IN  sc' = IF r.kind = "ret"
                 THEN [sc EXCEPT !.pc = "ret", !.res = r.val,
                                 !.casts = sc.casts + 1]
                 ELSE [sc EXCEPT !.pc = "panic", !.msg = r.msg,
                                 !.casts = sc.casts + 1]
    /\ UNCHANGED <<sp, ix, ab, fn>>

\* the caller casts the result back to the element type it came from:
\* SliceCast[[]SrcE](SliceCast[[]DstE](x))
SliceCastBack ==
    /\ sc.pc = "ret"
    /\ sc.casts < MaxCasts
    /\ sc' = [sc EXCEPT !.pc = "call", !.x = sc.res, !.prev = sc.x,
                        !.sizeSrc = sc.sizeDst, !.sizeDst = sc.sizeSrc]
    /\ UNCHANGED <<sp, ix, ab, fn>>

NextSliceCast == SliceCastCall \/ SliceCastBack

SpecSliceCast == InitSliceCast /\ [][NextSliceCast]_vars

(***************************************************************************)
(* SliceCastPtr                                                            *)
(***************************************************************************)

\* mutant: the check compares the capacity with the ratio of the sizes, as
\* SliceCast does, and the truncating division hides a short buffer
OutOfBounds_ByRatio(x, sizeSrc, sizeDst) ==
    /\ sizeSrc # sizeDst
    /\ IF sizeSrc = 0 THEN TRUE ELSE x.cap < sizeDst \div sizeSrc

\* if sizeSrc != sizeDst { if sz := int(sizeSrc) * cap(x); sz < int(sizeDst)
OutOfBounds(x, sizeSrc, sizeDst) ==
    /\ sizeSrc # sizeDst
    /\ sizeSrc * x.cap < sizeDst

\* SliceCastPtr[Dst, Src](x); the panic carries sz and sizeDst
SliceCastPtr(x, sizeSrc, sizeDst) ==
    IF x.cap = 0 THEN Ret(NilPtr)
    ELSE IF OutOfBounds(x, sizeSrc, sizeDst)
         THEN Panic(<<sizeSrc * x.cap, sizeDst>>)
         ELSE Ret(x.data)

InitSliceCastPtr ==
    /\ \E x \in ValidSlices, a \in Sizes, b \in Sizes :
          sp = [pc |-> "call", x |-> x, sizeSrc |-> a, sizeDst |-> b,
                res |-> NilPtr, msg |-> <<>>]
    /\ sc = Idle /\ ix = Idle /\ ab = Idle /\ fn = Idle

SliceCastPtrCall ==
    /\ sp.pc = "call"
    /\ LET r == SliceCastPtr(sp.x, sp.sizeSrc, sp.sizeDst)
       IN  sp' = IF r.kind = "ret"
                 THEN [sp EXCEPT !.pc = "ret", !.res = r.val]
                 ELSE [sp EXCEPT !.pc = "panic", !.msg = r.msg]
    /\ UNCHANGED <<sc, ix, ab, fn>>

NextSliceCastPtr == SliceCastPtrCall

SpecSliceCastPtr == InitSliceCastPtr /\ [][NextSliceCastPtr]_vars

(***************************************************************************)
(* Index                                                                   *)
(***************************************************************************)
PtrBits == 5          \* width of uintptr in the model
MaxIdxCap == 2        \* capacities of the slices handed to Index
MaxElemSize == 2      \* element sizes of the slices handed to Index

\* uintptr arithmetic wraps modulo 2^PtrBits
PtrMod == 2 ^ PtrBits

\* the integer types Index is instantiated with (constraints.Integer):
\* narrower than, as wide as and wider than uintptr, signed and unsigned
IntTypes ==
    {[bits |-> b, signed |-> sg] :
        b \in {PtrBits - 2, PtrBits, PtrBits + 1}, sg \in BOOLEAN}

\* the values of an integer type
ValuesOf(t) ==
    IF t.signed THEN (-(2 ^ (t.bits - 1))) .. (2 ^ (t.bits - 1) - 1)
    ELSE 0 .. (2 ^ t.bits - 1)

\* the two's complement bit pattern of v in an integer type
BitPattern(v, t) == IF v < 0 THEN 2 ^ t.bits + v ELSE v

\* the conversion uintptr(idx): a wider type is truncated to the low
\* PtrBits bits, a narrower signed type is sign-extended
ToUintptr(v, t) ==
    IF t.bits >= PtrBits THEN BitPattern(v, t) % PtrMod
    ELSE IF v < 0 THEN PtrMod - 2 ^ t.bits + BitPattern(v, t)
    ELSE v

\* unsafe.Add(ptr, len) with len a uintptr
UnsafeAdd(ptr, len) == (ptr + len) % PtrMod

\* the backing arrays of the slices handed to Index
IdxBases == {NilPtr, 12}

\* a slice without a backing array has capacity 0
IdxSlices ==
    {s \in {sliceHeader(d, l, c) :
              d \in IdxBases, l \in 0..MaxIdxCap, c \in 0..MaxIdxCap} :
        s.len <= s.cap /\ (s.data = NilPtr => s.cap = 0)}

\* Index[E, S, Int](ptr, idx) with sizeE = unsafe.Sizeof(*new(E)).  The
\* index expression ptr[0] is an ordinary one: it panics when len(ptr) = 0.
Index(ptr, sizeE, idx, t) ==
    LET offset == (sizeE * ToUintptr(idx, t)) % PtrMod
    IN  IF ptr.len = 0
        THEN Panic("index out of range [0] with length 0")
        ELSE Ret(UnsafeAdd(ptr.data, offset))

InitIndex ==
    /\ \E s \in IdxSlices, e \in 0..MaxElemSize, t \in IntTypes :
         \E v \in ValuesOf(t) :
            ix = [pc |-> "call", ptr |-> s, sizeE |-> e, idx |-> v,
                  type |-> t, res |-> NilPtr, msg |-> ""]
    /\ sc = Idle /\ sp = Idle /\ ab = Idle /\ fn = Idle

IndexCall ==
    /\ ix.pc = "call"
    /\ LET r == Index(ix.ptr, ix.sizeE, ix.idx, ix.type)
       IN  ix' = IF r.kind = "ret"
                 THEN [ix EXCEPT !.pc = "ret", !.res = r.val]
                 ELSE [ix EXCEPT !.pc = "panic", !.msg = r.msg]
    /\ UNCHANGED <<sc, sp, ab, fn>>

NextIndex == IndexCall

SpecIndex == InitIndex /\ [][NextIndex]_vars

(***************************************************************************)
(* AsBytes                                                                 *)
(***************************************************************************)
MaxFields == 2        \* struct types of up to MaxFields fields
MaxWrites == 2        \* writes after AsBytes returned

\* a type E is the sequence of the sizes of its fields; a field is aligned
\* to its size and the struct to its largest field.  type X struct
\* { A uint32; B uint64; C uint32 } of TestAsBytes is <<4, 8, 4>>.
TypeX == <<4, 8, 4>>

FieldSizes == {1, 2}

Types ==
    {TypeX} \cup UNION {[1..n -> FieldSizes] : n \in 0..MaxFields}

AlignUp(n, a) == ((n + a - 1) \div a) * a

RECURSIVE FieldEnd(_, _)
\* the offset of field i of type t, and the offset just past it
FieldOffset(t, i) == AlignUp(IF i = 1 THEN 0 ELSE FieldEnd(t, i - 1), t[i])
FieldEnd(t, i) == FieldOffset(t, i) + t[i]

RECURSIVE MaxField(_, _)
MaxField(t, i) ==
    IF i = 0 THEN 1
    ELSE LET m == MaxField(t, i - 1) IN IF t[i] > m THEN t[i] ELSE m

\* unsafe.Sizeof of a value of type t: padding included
Sizeof(t) ==
    IF Len(t) = 0 THEN 0
    ELSE AlignUp(FieldEnd(t, Len(t)), MaxField(t, Len(t)))

\* the address of the value AsBytes is handed, and the memory around it
ValueAddr == 8
MemAddrs == 0 .. (ValueAddr + Sizeof(TypeX) + 8)

\* what a write may store
ByteVals == {0, 255}

\* memory as TestAsBytes sets it up: field i holds i (little endian), the
\* padding is zero; the bytes around the value hold 170
InitMem(t, ptr) ==
    [a \in MemAddrs |->
        IF ptr = NilPtr \/ a < ptr \/ a >= ptr + Sizeof(t) THEN 170
        ELSE IF \E i \in 1..Len(t) : FieldOffset(t, i) = a - ptr
             THEN CHOOSE i \in 1..Len(t) : FieldOffset(t, i) = a - ptr
             ELSE 0]

\* unsafe.Slice(ptr, len)
UnsafeSlice(ptr, len) ==
    IF ptr = NilPtr
    THEN IF len = 0 THEN Ret(NilSlice)
         ELSE Panic("unsafe.Slice: ptr is nil and len is not zero")
    ELSE Ret(sliceHeader(ptr, len, len))

\* mutant: the size of the pointer (8 bytes) instead of the value's
AsBytes_SizeofPtr(ptr, t) == UnsafeSlice(ptr, 8)

\* AsBytes[E, T](ptr)
AsBytes(ptr, t) == UnsafeSlice(ptr, Sizeof(t))

\* b[i] for the slice b, and (*ptr)'s byte i
ViewByte(mem, view, i) == mem[view.data + i]
ValueByte(mem, ptr, i) == mem[ptr + i]

InitAsBytes ==
    /\ \E t \in Types, p \in {NilPtr, ValueAddr} :
          ab = [pc |-> "call", ptr |-> p, type |-> t, view |-> NilSlice,
                msg |-> "", mem |-> InitMem(t, p), writes |-> 0,
                last |-> [via |-> "none", off |-> 0, val |-> 0]]
    /\ sc = Idle /\ sp = Idle /\ ix = Idle /\ fn = Idle

AsBytesCall ==
    /\ ab.pc = "call"
    /\ LET r == AsBytes(ab.ptr, ab.type)
       IN  ab' = IF r.kind = "ret"
                 THEN [ab EXCEPT !.pc = "ret", !.view = r.val]
                 ELSE [ab EXCEPT !.pc = "panic", !.msg = r.msg]
    /\ UNCHANGED <<sc, sp, ix, fn>>

\* the caller stores v in b[i]
WriteView ==
    /\ ab.pc = "ret"
    /\ ab.writes < MaxWrites
    /\ \E i \in 0..(ab.view.len - 1), v \in ByteVals :
          ab' = [ab EXCEPT !.mem[ab.view.data + i] = v,
                           !.writes = ab.writes + 1,
                           !.last = [via |-> "view", off |-> i, val |-> v]]
    /\ UNCHANGED <<sc, sp, ix, fn>>

\* the caller stores v in byte i of *ptr
WriteValue ==
    /\ ab.pc = "ret"
    /\ ab.ptr # NilPtr
    /\ ab.writes < MaxWrites
    /\ \E i \in 0..(Sizeof(ab.type) - 1), v \in ByteVals :
          ab' = [ab EXCEPT !.mem[ab.ptr + i] = v,
                           !.writes = ab.writes + 1,
                           !.last = [via |-> "value", off |-> i, val |-> v]]
    /\ UNCHANGED <<sc, sp, ix, fn>>

NextAsBytes == AsBytesCall \/ WriteView \/ WriteValue

SpecAsBytes == InitAsBytes /\ [][NextAsBytes]_vars

(***************************************************************************)
(* FindNull                                                                *)
(***************************************************************************)
pageSize == 4096      \* const pageSize = 4096

MaxPages == 3         \* the memory of the model is pages 1..MaxPages
MaxOff == 1           \* addresses this close to either end of a page
MaxZeros == 2         \* zero bytes in memory

\* offsets within a page: the first and the last MaxOff + 1 bytes
PageOffsets == (0..MaxOff) \cup ((pageSize - 1 - MaxOff)..(pageSize - 1))

\* the addresses FindNull is started at (in page 1), and those that may
\* hold a zero byte; every other byte of memory is non-zero
StartAddrs == {pageSize + d : d \in PageOffsets}
ZeroAddrs == {p * pageSize + d : p \in 1..MaxPages, d \in PageOffsets}
MemEnd == (MaxPages + 1) * pageSize

Min(S) == CHOOSE m \in S : \A n \in S : m <= n

\* strings.IndexByte(unsafe.String(ptr, n), 0) on a memory whose zero bytes
\* are at the addresses zeros
IndexByteString(zeros, ptr, n) ==
    LET hits == {z \in zeros : ptr <= z /\ z < ptr + n}
    IN  IF hits = {} THEN -1 ELSE Min(hits) - ptr

\* mutant: a whole page whatever the alignment of the pointer
FirstSafeLen_WholePage(s) == pageSize

\* safeLen := int(pageSize - uintptr(ptr)%pageSize)
FirstSafeLen(s) == pageSize - (s % pageSize)

\* mutant: the offset within the chunk, without the bytes already scanned
FoundAt_ChunkOnly(offset, i) == i

\* return offset + i
FoundAt(offset, i) == offset + i

\* mutant: the offset advances by a page although the first chunk is shorter
NextOffset_ByPage(offset, safeLen) == offset + pageSize

\* offset += safeLen
NextOffset(offset, safeLen) == offset + safeLen

InitFindNull ==
    /\ \E s \in StartAddrs \cup {NilPtr}, zs \in SUBSET ZeroAddrs :
          /\ Cardinality(zs) <= MaxZeros
          /\ fn = [pc |-> "call", s |-> s, zeros |-> zs, ptr |-> NilPtr,
                   offset |-> 0, safeLen |-> 0, res |-> -1, chunks |-> <<>>]
    /\ sc = Idle /\ sp = Idle /\ ix = Idle /\ ab = Idle

\* if s == nil { return 0 }; otherwise the locals are set up
FindNullEnter ==
    /\ fn.pc = "call"
    /\ fn' = IF fn.s = NilPtr
             THEN [fn EXCEPT !.pc = "done", !.res = 0]
             ELSE [fn EXCEPT !.pc = "loop", !.ptr = fn.s, !.offset = 0,
                             !.safeLen = FirstSafeLen(fn.s)]
    /\ UNCHANGED <<sc, sp, ix, ab>>

\* an iteration of the loop that finds a zero byte in its chunk
FindNullFound ==
    /\ fn.pc = "loop"
    /\ fn.ptr < MemEnd
    /\ LET i == IndexByteString(fn.zeros, fn.ptr, fn.safeLen)
       IN  /\ i # -1
           /\ fn' = [fn EXCEPT !.pc = "done", !.res = FoundAt(fn.offset, i),
                        !.chunks = Append(fn.chunks, <<fn.ptr, fn.safeLen>>)]
    /\ UNCHANGED <<sc, sp, ix, ab>>

\* an iteration of the loop that finds none and moves to the next page
FindNullNextPage ==
    /\ fn.pc = "loop"
    /\ fn.ptr < MemEnd
    /\ IndexByteString(fn.zeros, fn.ptr, fn.safeLen) = -1
    /\ fn' = [fn EXCEPT !.ptr = fn.ptr + fn.safeLen,
                        !.offset = NextOffset(fn.offset, fn.safeLen),
                        !.safeLen = pageSize,
                        !.chunks = Append(fn.chunks, <<fn.ptr, fn.safeLen>>)]
    /\ UNCHANGED <<sc, sp, ix, ab>>

NextFindNull == FindNullEnter \/ FindNullFound \/ FindNullNextPage

SpecFindNull == InitFindNull /\ [][NextFindNull]_vars

\* the loop is sequential code: an iteration that can run does run
FairSpecFindNull == SpecFindNull /\ WF_vars(NextFindNull)

(***************************************************************************)
(* Properties of SliceCast                                                 *)
(***************************************************************************)

\* SliceCast has returned or panicked
ScExecuted == sc.pc \in {"ret", "panic"}

\* C1: SliceCast never over-reads: for positive element sizes, integer
\* ratio or not, the result spans no more bytes than the argument, in
\* capacity (newCap * sizeDst <= cap * sizeSrc) and in length.
C1_NeverOverReads ==
    (ScExecuted /\ sc.sizeSrc > 0 /\ sc.sizeDst > 0) =>
        /\ sc.pc = "ret"
        /\ sc.res.cap * sc.sizeDst <= sc.x.cap * sc.sizeSrc
        /\ sc.res.len * sc.sizeDst <= sc.x.len * sc.sizeSrc

\* the source elements are k >= 1 times as large as the destination's
ScShrinksBy(k) ==
    /\ sc.sizeDst > 0
    /\ k >= 1
    /\ sc.sizeSrc = k * sc.sizeDst

\* the cast that produced the argument of this one went from elements k >= 1
\* times as large as its destination's; this cast goes back
ScGoesBackBy(k) ==
    /\ sc.casts >= 2
    /\ sc.sizeSrc > 0
    /\ k >= 1
    /\ sc.sizeDst = k * sc.sizeSrc

\* the ratio law on lengths and capacities, and the round trip
ScRatioLaw ==
    /\ \A k \in 1..(MaxSize + ExampleSize) :
          (ScExecuted /\ ScShrinksBy(k)) =>
              /\ sc.pc = "ret"
              /\ sc.res.len = sc.x.len * k
              /\ sc.res.cap = sc.x.cap * k
    /\ \A k \in 1..(MaxSize + ExampleSize) :
          (ScExecuted /\ ScGoesBackBy(k)) =>
              /\ sc.pc = "ret"
              /\ sc.res.len = sc.prev.len
              /\ sc.res.cap = sc.prev.cap

\* C3 as stated: with a = k*b for an integer k >= 1, SliceCast yields length
\* n*k and capacity c*k over the same base address, and casting back
\* recovers length n and capacity c.
C3_RatioLawSameBase ==
    /\ ScRatioLaw
    /\ (ScExecuted /\ \E k \in 1..(MaxSize + ExampleSize) : ScShrinksBy(k)) =>
          sc.res.data = sc.x.data

\* C3 as amended: the same, with the base address kept only for a slice of
\* capacity > 0; a slice of capacity 0 yields the nil slice.
C3_RatioLaw ==
    /\ ScRatioLaw
    /\ (ScExecuted /\ \E k \in 1..(MaxSize + ExampleSize) : ScShrinksBy(k)) =>
          IF sc.x.cap > 0 THEN sc.res.data = sc.x.data
          ELSE sc.res = NilSlice

\* C3's case: 3 of 5 four-byte elements, cast to two-byte elements (6 of
\* 10) and back
C3_Witness ==
    /\ sc.pc = "ret"
    /\ sc.casts = 2
    /\ sc.sizeSrc = 2 /\ sc.sizeDst = 4
    /\ sc.x = sliceHeader(SliceBase, 6, 10)
    /\ sc.prev = sliceHeader(SliceBase, 3, 5)
    /\ sc.res = sc.prev

\* C4: a slice of capacity > 0 cast to elements k times as large has length
\* len div k and capacity cap div k, the numbers of whole destination
\* elements that fit in len*sizeSrc and cap*sizeSrc bytes.
C4_CastToLarger ==
    \A k \in 2..(MaxSize + ExampleSize) :
        (ScExecuted /\ sc.x.cap > 0 /\ sc.sizeSrc > 0
                    /\ sc.sizeDst = k * sc.sizeSrc) =>
            /\ sc.pc = "ret"
            /\ sc.res.len = sc.x.len \div k
            /\ sc.res.cap = sc.x.cap \div k
            /\ sc.res.len = (sc.x.len * sc.sizeSrc) \div sc.sizeDst
            /\ sc.res.cap = (sc.x.cap * sc.sizeSrc) \div sc.sizeDst
            /\ sc.res.data = sc.x.data

\* C4's case: ExampleSliceCast, make([]byte, 32, 60) cast to 8-byte structs
C4_Witness ==
    /\ sc.pc = "ret"
    /\ sc.casts = 1
    /\ sc.x = sliceHeader(SliceBase, ExampleLen, ExampleCap)
    /\ sc.sizeSrc = 1 /\ sc.sizeDst = ExampleSize
    /\ sc.res.len = 4 /\ sc.res.cap = 7

\* C10: SliceCast has no failure outcome: for every slice and every pair of
\* element sizes >= 0 it returns a slice with 0 <= newLen <= newCap, the
\* nil slice when cap = 0.
C10_NoFailure ==
    /\ sc.pc # "panic"
    /\ sc.pc = "ret" =>
          /\ 0 <= sc.res.len /\ sc.res.len <= sc.res.cap
          /\ sc.x.cap = 0 => sc.res = NilSlice

(***************************************************************************)
(* Properties of SliceCastPtr                                              *)
(***************************************************************************)

SpExecuted == sp.pc \in {"ret", "panic"}

\* the panic of the bounds check, carrying the byte sizes
SpPanicked ==
    /\ sp.pc = "panic"
    /\ sp.msg = <<sp.sizeSrc * sp.x.cap, sp.sizeDst>>

\* C2 as stated: for capacity c, element size a and destination size
\* b > a*c, SliceCastPtr panics and returns no pointer.
C2_PanicsWhenTooSmall ==
    (SpExecuted /\ sp.sizeDst > sp.sizeSrc * sp.x.cap) => SpPanicked

\* C2 as amended: the same for a slice of capacity c > 0; a slice of
\* capacity 0 yields the nil pointer without a panic.
C2_BoundsCheck ==
    /\ (SpExecuted /\ sp.x.cap > 0 /\ sp.sizeDst > sp.sizeSrc * sp.x.cap) =>
          SpPanicked
    /\ (SpExecuted /\ sp.x.cap = 0) => (sp.pc = "ret" /\ sp.res = NilPtr)

\* C2's case: 1 element of 2 bytes cast to a pointer to 3 bytes
C2_Witness ==
    /\ sp.pc = "panic"
    /\ sp.x.cap = 1 /\ sp.sizeSrc = 2 /\ sp.sizeDst = 3
    /\ sp.msg = <<2, 3>>

(***************************************************************************)
(* Properties of Index                                                     *)
(***************************************************************************)

\* C7: Index has no safety checks: for every slice, whatever its length and
\* capacity, and every index of every integer type it does not fail and
\* returns baseAddress + i*sizeof(E) modulo 2^w.
C7_IndexNeverFails ==
    (ix.pc \in {"ret", "panic"}) =>
        /\ ix.pc = "ret"
        /\ ix.res = (ix.ptr.data + ix.idx * ix.sizeE) % PtrMod

(***************************************************************************)
(* Properties of AsBytes                                                   *)
(***************************************************************************)

\* C6: for a pointer to a value of type E the view has length sizeof(E),
\* padding included, byte i of it is the byte at ptr+i, and after any
\* writes to the view or to the value the two agree byte for byte.
C6_AsBytesView ==
    (ab.pc \in {"ret", "panic"} /\ ab.ptr # NilPtr) =>
        /\ ab.pc = "ret"
        /\ ab.view.len = Sizeof(ab.type)
        /\ ab.type = TypeX => ab.view.len = 24
        /\ \A i \in 0..(Sizeof(ab.type) - 1) :
              /\ ViewByte(ab.mem, ab.view, i) = ab.mem[ab.ptr + i]
              /\ (ab.last.via = "view" /\ ab.last.off = i) =>
                    ValueByte(ab.mem, ab.ptr, i) = ab.last.val
              /\ (ab.last.via = "value" /\ ab.last.off = i) =>
                    ViewByte(ab.mem, ab.view, i) = ab.last.val

\* C6's case: the view of an X; the caller stored 255 in byte 20 of the
\* value and then in byte 4 (padding) of the view
C6_Witness ==
    /\ ab.pc = "ret"
    /\ ab.type = TypeX
    /\ ab.view = sliceHeader(ab.ptr, 24, 24)
    /\ ab.writes = 2
    /\ ab.last = [via |-> "view", off |-> 4, val |-> 255]
    /\ ValueByte(ab.mem, ab.ptr, 4) = 255
    /\ ViewByte(ab.mem, ab.view, 20) = 255
    /\ ViewByte(ab.mem, ab.view, 8) = 2

(***************************************************************************)
(* Properties of FindNull                                                  *)
(***************************************************************************)

\* the zero bytes at or after the start address
FnReachable == {z \in fn.zeros : z >= fn.s}

\* the offset of the first of them
FnFirstZero == Min(FnReachable) - fn.s

PageOf(a) == a \div pageSize

RECURSIVE SumLens(_)
SumLens(cs) == IF cs = <<>> THEN 0 ELSE cs[1][2] + SumLens(Tail(cs))

\* C5: FindNull returns the offset k of the first zero byte, whatever the
\* alignment of the start and the number of pages before the zero byte; for
\* a nil pointer it returns 0 without reading memory.
C5_ReturnsFirstZero ==
    fn.pc = "done" =>
        IF fn.s = NilPtr THEN fn.res = 0 /\ fn.chunks = <<>>
        ELSE /\ FnReachable # {}
             /\ fn.res = FnFirstZero
             /\ \A z \in fn.zeros : ~(fn.s <= z /\ z < fn.s + fn.res)

\* C5's case: started at the last byte of a page, the first zero byte is
\* the first byte of the page after the next one
C5_Witness ==
    /\ fn.pc = "done"
    /\ fn.s = 2 * pageSize - 1
    /\ fn.zeros = {pageSize, 3 * pageSize}
    /\ fn.res = pageSize + 1

\* C8: every chunk read lies within one page; the first is the
\* pageSize - (address mod pageSize) bytes left in the starting page, every
\* later one a whole page at a page-aligned address; and none begins after
\* the page of the first zero byte.
C8_PageSafety ==
    /\ fn.pc = "loop" =>
          /\ fn.safeLen >= 1 /\ fn.safeLen <= pageSize
          /\ PageOf(fn.ptr) = PageOf(fn.ptr + fn.safeLen - 1)
          /\ (fn.ptr + fn.safeLen) % pageSize = 0
    /\ fn.pc \in {"loop", "done"} =>
          \A n \in 1..Len(fn.chunks) :
             LET p == fn.chunks[n][1]
                 l == fn.chunks[n][2]
             IN  /\ PageOf(p) = PageOf(p + l - 1)
                 /\ n = 1 => (p = fn.s /\ l = pageSize - (fn.s % pageSize))
                 /\ n > 1 => (p % pageSize = 0 /\ l = pageSize)
                 /\ FnReachable # {} => PageOf(p) <= PageOf(Min(FnReachable))

\* C8's case: started one byte before the end of a page, two chunks read
C8_Witness ==
    /\ fn.pc = "done"
    /\ fn.s = 2 * pageSize - 1
    /\ fn.chunks = <<<<2 * pageSize - 1, 1>>, <<2 * pageSize, pageSize>>>>

\* what holds of the scan in every state
FnScanInv ==
    /\ fn.pc = "loop" =>
          /\ fn.offset = fn.ptr - fn.s
          /\ fn.offset = SumLens(fn.chunks)
          /\ \A z \in FnReachable : z >= fn.ptr
    /\ (fn.pc = "done" /\ fn.s # NilPtr) =>
          /\ (fn.s + fn.res) \in fn.zeros
          /\ Len(fn.chunks) = PageOf(fn.s + fn.res) - PageOf(fn.s) + 1
    /\ (fn.s # NilPtr /\ FnReachable = {}) => fn.pc # "done"

\* C9: with a zero byte at some offset k the loop returns, in the iteration
\* that scans the page of offset k, the offset having grown by the length
\* of each chunk before; without a reachable zero byte it never returns.
C9_TerminatesAtZero ==
    /\ (fn.pc = "loop" /\ FnReachable # {}) ~> (fn.pc = "done")
    /\ []FnScanInv

\* C9's case: the loop returned in its third iteration
C9_Witness ==
    /\ fn.pc = "done"
    /\ fn.s # NilPtr
    /\ Len(fn.chunks) = 3
    /\ fn.res = SumLens(SubSeq(fn.chunks, 1, 2)) + 1

====
